---- MODULE Spec2Model ----
(***************************************************************************)
(* Model of teyeler.py: the Threader worker pool, the in-place padder, the *)
(* tile extractor (gettiles), the pyramid walker (tile) and the driving    *)
(* program (climain).                                                      *)
(***************************************************************************)
EXTENDS Integers, Sequences, FiniteSets, TLC

(* ---------------------------- bounds ----------------------------------- *)
MaxThreads == 2     \* nthreads is drawn from 1..MaxThreads
MaxStarts == 2      \* calls of Threader.start by the generic caller
MaxJobs == 2        \* calls of Threader.add by the generic caller
MaxStops == 2       \* calls of Threader.stop by the generic caller
MaxDim == 4         \* raster rows and columns are drawn from 1..MaxDim
MaxTile == 2        \* tile rows and columns are drawn from 1..MaxTile
MaxLevels == 2      \* an explicit nlevels is drawn from 1..MaxLevels
PxLen == 2          \* px_len: scalars per pixel (np.prod(img.shape[2:]))
MainDim == 2        \* climain: image rows and columns are drawn from 1..MainDim

VARIABLES
    nthreads,       \* Threader.nthreads
    queue,          \* Threader.queue: FIFO of jobs and None tokens
    unfinished,     \* Threader.queue.unfinished_tasks
    threads,        \* Threader.threads: list of thread ids
    wstate,         \* per thread: "unborn","get","run","task_done","exited","crashed"
    wjob,           \* per thread: the job it popped
    pc,             \* position of the calling (main) thread
    si,             \* loop index of the caller inside stop()
    nstarts,        \* number of start() calls made
    nstops,         \* number of stop() calls made
    nadded,         \* number of add() calls made
    ran,            \* ids of jobs whose call returned normally
    failed,         \* ids of jobs whose call raised
    written,        \* the files written by save: job, address, pixels
    nwrites,        \* number of save calls that wrote their file
    heap,           \* the numpy arrays allocated so far (shape and buffer)
    img,            \* the array the name img is bound to (index into heap)
    corner,         \* gettiles / pad argument corner
    order,          \* gettiles argument order
    tile_shape,     \* tile_shape argument
    optLevels,      \* opt.levels / the nlevels argument (NoLevels for None)
    nlevels,        \* tile(): nlevels after the default has been applied
    level,          \* tile(): loop variable level
    rowsN,          \* gettiles(): rows
    colsN,          \* gettiles(): cols
    grow,           \* gettiles(): loop variable row
    gcol,           \* gettiles(): loop variable col
    preShape,       \* shape of img when gettiles was entered
    lvTiles,        \* the tiles gettiles has yielded for the current img
    walked,         \* every record yielded so far, with its pixels when yielded
    pshape,         \* pad(): argument shape
    pfill,          \* pad(): argument fill
    pold,           \* pad(): the array as it was when pad was called
    prow            \* pad(): loop variable row

thrVars == <<nthreads, queue, unfinished, threads, wstate, wjob, pc, si,
             nstarts, nstops, nadded, ran, failed, written, nwrites>>
genVars == <<heap, img, corner, order, tile_shape, optLevels, nlevels, level,
             rowsN, colsN, grow, gcol, preShape, lvTiles, walked>>
padVars == <<pshape, pfill, pold, prow>>
vars == <<thrVars, genVars, padVars>>

(* ------------------------------ jobs ------------------------------------ *)
\* The stop token queue.put(None) of Threader.stop.
NoneJob == [id |-> 0]
IsNone(job) == job.id = 0
\* A callable handed to Threader.add.
Job(n) == [id |-> n]

Tids == 1..(MaxThreads * MaxStarts)
Alive(t) == wstate[t] \in {"get", "run", "task_done"}
LiveWorkers == {t \in Tids : Alive(t)}
Terminated(t) == wstate[t] \in {"exited", "crashed"}
NextTid == Cardinality({t \in Tids : wstate[t] # "unborn"}) + 1
RealJobs(q) == {q[i].id : i \in {k \in 1..Len(q) : ~IsNone(q[k])}}
QueuedJobs == RealJobs(queue)
InFlight == {wjob[t].id : t \in {u \in Tids : wstate[u] \in {"run", "task_done"}}}


(* ------------------------------ rasters --------------------------------- *)
\* A numpy array of shape (rows, cols, px): its shape and its C-order buffer.
Corners == {"SouthWest", "NorthWest", "SouthEast", "NorthEast"}
Orders == {"ColMajor", "RowMajor"}
DEF_ORDER == "ColMajor"
DEF_CORNER == "SouthWest"

Min(a, b) == IF a < b THEN a ELSE b
Max(a, b) == IF a > b THEN a ELSE b

\* Element (i, j, k) of an array (0-based indices) in its flat buffer.
Cell(im, i, j, k) == im.flat[(i * im.shape[2] + j) * PxLen + k + 1]

\* A freshly decoded image: every scalar is a distinct positive value.
NewImage(rows, cols) ==
    [shape |-> <<rows, cols>>, flat |-> [x \in 1..(rows * cols * PxLen) |-> x]]

\* Start of the Python slice a[start:] on an axis of length n.
SliceFrom(start, n) == IF start < 0 THEN Max(n + start, 0) ELSE Min(start, n)

(* -------------------------------- pad ----------------------------------- *)
South(cor) == cor \in {"SouthWest", "SouthEast"}
East(cor) == cor \in {"NorthEast", "SouthEast"}

\* fill = np.zeros(px_shape) when no fill is given.
NoFill == <<>>
PadFillValue(fill) == IF fill = NoFill THEN [k \in 1..PxLen |-> 0] ELSE fill

\* Variant of PadRaises that requires both margins to be negative.
PadRaisesOnlyIfBothSmaller(shape, im) ==
    shape[1] - im.shape[1] < 0 /\ shape[2] - im.shape[2] < 0

PadMarv(shape, im) == shape[1] - im.shape[1]
PadMarh(shape, im) == shape[2] - im.shape[2]
PadRaises(shape, im) == PadMarv(shape, im) < 0 \/ PadMarh(shape, im) < 0

PadTop(cor, shape, im) == IF South(cor) THEN PadMarv(shape, im) ELSE 0
PadBottom(cor, shape, im) ==
    shape[1] - (IF South(cor) THEN 0 ELSE PadMarv(shape, im)) - 1
PadLeft(cor, shape, im) == IF East(cor) THEN PadMarh(shape, im) ELSE 0
PadRight(cor, shape, im) ==
    shape[2] - (IF East(cor) THEN 0 ELSE PadMarh(shape, im)) - 1

\* img.resize(new_shape, refcheck=False): the buffer keeps its leading
\* entries and is extended with zeros.
PadResize(shape, im) ==
    [shape |-> shape,
     flat |-> [x \in 1..(shape[1] * shape[2] * PxLen) |->
                  IF x <= Len(im.flat) THEN im.flat[x] ELSE 0]]

\* One iteration of the row loop: the slice assignment on the flat buffer.
PadCopyRow(flat, row, oldCols, newCols, top, left) ==
    LET old_idx == row * oldCols
        new_idx == (row + top) * newCols + left
        lo == new_idx * PxLen
        hi == (new_idx + oldCols) * PxLen
    IN [x \in 1..Len(flat) |->
           IF lo <= x - 1 /\ x - 1 < hi
              THEN flat[(x - 1) - lo + old_idx * PxLen + 1]
              ELSE flat[x]]

\* for row in reversed(range(old_shape[0])): rows row, row-1, ..., 0.
RECURSIVE PadCopyRows(_, _, _, _, _, _)
PadCopyRows(flat, row, oldCols, newCols, top, left) ==
    IF row < 0 THEN flat
    ELSE PadCopyRows(PadCopyRow(flat, row, oldCols, newCols, top, left),
                     row - 1, oldCols, newCols, top, left)

\* Variant of PadFillBorder that leaves out the img[:, :left] target.
PadFillBorderNoLeft(im, top, bottom, left, right, fill) ==
    LET rows == im.shape[1]
        cols == im.shape[2]
        inBorder(i, j) == \/ i < top
                          \/ i >= SliceFrom(bottom, rows)
                          \/ j >= SliceFrom(right, cols)
    IN [shape |-> im.shape,
        flat |-> [x \in 1..Len(im.flat) |->
                     LET px == (x - 1) \div PxLen
                         k == (x - 1) % PxLen
                     IN IF inBorder(px \div cols, px % cols)
                           THEN PadFillValue(fill)[k + 1]
                           ELSE im.flat[x]]]

\* img[:top, :] = img[bottom:, :] = img[:, :left] = img[:, right:] = fill
PadFillBorder(im, top, bottom, left, right, fill) ==
    LET rows == im.shape[1]
        cols == im.shape[2]
        inBorder(i, j) == \/ i < top
                          \/ i >= SliceFrom(bottom, rows)
                          \/ j < left
                          \/ j >= SliceFrom(right, cols)
    IN [shape |-> im.shape,
        flat |-> [x \in 1..Len(im.flat) |->
                     LET px == (x - 1) \div PxLen
                         k == (x - 1) % PxLen
                     IN IF inBorder(px \div cols, px % cols)
                           THEN PadFillValue(fill)[k + 1]
                           ELSE im.flat[x]]]

\* pad(corner, shape, img, fill); callers reach it only when it does not
\* raise.
Pad(cor, shape, im, fill) ==
    LET resized == PadResize(shape, im)
        moved == [resized EXCEPT !.flat =
                    PadCopyRows(resized.flat, im.shape[1] - 1, im.shape[2],
                                shape[2], PadTop(cor, shape, im),
                                PadLeft(cor, shape, im))]
    IN PadFillBorder(moved, PadTop(cor, shape, im),
                     PadBottom(cor, shape, im),
                     PadLeft(cor, shape, im),
                     PadRight(cor, shape, im), fill)

(* -------------------------------- zoom ---------------------------------- *)
\* int(round(s * 0.5)): Python 3 rounds halves to the even neighbour.
ZoomDim(s) ==
    IF s % 2 = 0 THEN s \div 2
    ELSE IF ((s - 1) \div 2) % 2 = 0 THEN (s - 1) \div 2 ELSE (s + 1) \div 2

\* libzoom, order 0: output index i reads input index floor(i * z + 0.5),
\* z = (n - 1) / (m - 1) for input length n and output length m (z = 1 when
\* m = 1).
ZoomIdx(i, n, m) ==
    IF m = 1 THEN i ELSE (2 * i * (n - 1) + (m - 1)) \div (2 * (m - 1))

\* zoom(img) = libzoom(img, (0.5, 0.5, 1), order=0): a new array.
Zoom(im) ==
    LET rows == ZoomDim(im.shape[1])
        cols == ZoomDim(im.shape[2])
    IN [shape |-> <<rows, cols>>,
        flat |-> [x \in 1..(rows * cols * PxLen) |->
                     LET px == (x - 1) \div PxLen
                         k == (x - 1) % PxLen
                     IN Cell(im, ZoomIdx(px \div cols, im.shape[1], rows),
                             ZoomIdx(px % cols, im.shape[2], cols), k)]]

(* ------------------------- tilecoordinates ------------------------------ *)
\* Variant of tilecoordinates that reflects with rows - row, cols - col.
tilecoordinatesNoMinusOne(ord, cor, shape, coordinates) ==
    LET col == IF East(cor) THEN shape[2] - coordinates[2]
               ELSE coordinates[2]
        row == IF South(cor) THEN shape[1] - coordinates[1]
               ELSE coordinates[1]
    IN IF ord = "ColMajor" THEN <<col, row>> ELSE <<row, col>>

\* Variant of tilecoordinates that reflects the column about the row count.
tilecoordinatesReflectByRows(ord, cor, shape, coordinates) ==
    LET col == IF East(cor) THEN shape[1] - coordinates[2] - 1
               ELSE coordinates[2]
        row == IF South(cor) THEN shape[1] - coordinates[1] - 1
               ELSE coordinates[1]
    IN IF ord = "ColMajor" THEN <<col, row>> ELSE <<row, col>>

tilecoordinates(ord, cor, shape, coordinates) ==
    LET col == IF East(cor) THEN shape[2] - coordinates[2] - 1
               ELSE coordinates[2]
        row == IF South(cor) THEN shape[1] - coordinates[1] - 1
               ELSE coordinates[1]
    IN IF ord = "ColMajor" THEN <<col, row>> ELSE <<row, col>>

(* ------------------------------ gettiles -------------------------------- *)
\* ceil(s / t)
CeilDiv(s, t) == IF s % t = 0 THEN s \div t ELSE s \div t + 1

\* Variant of Divisible that tests the first axis only.
DivisibleRowsOnly(im, tshape) == im.shape[1] % tshape[1] = 0

\* all(map(lambda x: (x[0] % x[1]) == 0, zip(img.shape, tile_shape)))
Divisible(im, tshape) ==
    im.shape[1] % tshape[1] = 0 /\ im.shape[2] % tshape[2] = 0

\* The shape gettiles pads to.
PadTarget(im, tshape) ==
    <<tshape[1] * CeilDiv(im.shape[1], tshape[1]),
      tshape[2] * CeilDiv(im.shape[2], tshape[2])>>

\* The array after the head of gettiles: padded in place when its shape is
\* not divisible by the tile shape.
GetTilesPad(cor, tshape, im) ==
    IF Divisible(im, tshape) THEN im
    ELSE Pad(cor, PadTarget(im, tshape), im, NoFill)

\* Variant of TileView whose column slice starts at t1*col + 1.
TileViewShifted(buf, im, tshape, row, col) ==
    [buf |-> buf,
     r0 |-> Min(tshape[1] * row, im.shape[1]),
     r1 |-> Min(tshape[1] * (row + 1), im.shape[1]),
     c0 |-> Min(tshape[2] * col + 1, im.shape[2]),
     c1 |-> Min(tshape[2] * (col + 1) + 1, im.shape[2])]

\* img[slice(t0*row, t0*(row+1)), slice(t1*col, t1*(col+1))]: a view of the
\* buffer of img (basic slicing does not copy); slices are clipped to the
\* array.
TileView(buf, im, tshape, row, col) ==
    [buf |-> buf,
     r0 |-> Min(tshape[1] * row, im.shape[1]),
     r1 |-> Min(tshape[1] * (row + 1), im.shape[1]),
     c0 |-> Min(tshape[2] * col, im.shape[2]),
     c1 |-> Min(tshape[2] * (col + 1), im.shape[2])]

\* The scalars a view shows, read through to its buffer, in C order.
ViewPixels(hp, view) ==
    LET h == view.r1 - view.r0
        w == view.c1 - view.c0
    IN [x \in 1..(h * w * PxLen) |->
           LET px == (x - 1) \div PxLen
               k == (x - 1) % PxLen
           IN Cell(hp[view.buf], view.r0 + (px \div w), view.c0 + (px % w), k)]

\* Entry of the generator up to its loop: pad, rows, cols.
GetTilesBegin ==
    /\ pc = "gettiles"
    /\ LET padded == GetTilesPad(corner, tile_shape, heap[img])
           rows == padded.shape[1] \div tile_shape[1]
           cols == padded.shape[2] \div tile_shape[2]
       IN /\ heap' = [heap EXCEPT ![img] = padded]
          /\ rowsN' = rows
          /\ colsN' = cols
          /\ pc' = IF rows * cols = 0 THEN "level_end" ELSE "yield"
    /\ grow' = 0
    /\ gcol' = 0
    /\ preShape' = heap[img].shape
    /\ lvTiles' = <<>>
    /\ UNCHANGED <<img, corner, order, tile_shape, optLevels, nlevels, level,
                   walked>>

\* What the generator yields at (grow, gcol).
CurTile == TileView(img, heap[img], tile_shape, grow, gcol)
CurCoord == tilecoordinates(order, corner, <<rowsN, colsN>>, <<grow, gcol>>)

\* One yield of gettiles and the advance to the next (row, col).
GetTilesYield ==
    /\ pc = "yield"
    /\ lvTiles' = Append(lvTiles, [tile |-> CurTile, row |-> grow,
                                   col |-> gcol, coord |-> CurCoord])
    /\ walked' = Append(walked, [level |-> level, major |-> CurCoord[1],
                                 minor |-> CurCoord[2], tile |-> CurTile,
                                 pixels |-> ViewPixels(heap, CurTile)])
    /\ IF gcol + 1 < colsN
          THEN grow' = grow /\ gcol' = gcol + 1 /\ pc' = "yield"
          ELSE /\ grow' = grow + 1
               /\ gcol' = 0
               /\ pc' = IF grow + 1 < rowsN THEN "yield" ELSE "level_end"
    /\ UNCHANGED <<heap, img, corner, order, tile_shape, optLevels, nlevels,
                   level, rowsN, colsN, preShape>>

(* --------------------------------- tile --------------------------------- *)
NoLevels == -1

RECURSIVE Pow2(_)
Pow2(k) == IF k <= 0 THEN 1 ELSE 2 * Pow2(k - 1)

\* ceil(log2(s / t)) for s, t >= 1: the least integer k with s / t <= 2^k.
RECURSIVE CeilLog2From(_, _, _)
CeilLog2From(k, s, t) ==
    IF (IF k >= 0 THEN s <= t * Pow2(k) ELSE s * Pow2(-k) <= t)
       THEN k ELSE CeilLog2From(k + 1, s, t)
CeilLog2Ratio(s, t) == CeilLog2From(-t, s, t)

\* Variant of AutoLevels without the leading 1 +.
AutoLevelsNoPlusOne(im, tshape) ==
    Max(CeilLog2Ratio(im.shape[1], tshape[1]),
        CeilLog2Ratio(im.shape[2], tshape[2]))

\* nlevels = 1 + max(ceil(log2(s / t)) ...) when nlevels is None.
AutoLevels(im, tshape) ==
    1 + Max(CeilLog2Ratio(im.shape[1], tshape[1]),
            CeilLog2Ratio(im.shape[2], tshape[2]))

\* tile(): head of the generator, up to the first level.
TileBegin ==
    /\ pc = "started"
    /\ LET n == IF optLevels = NoLevels THEN AutoLevels(heap[img], tile_shape)
                ELSE optLevels
       IN /\ nlevels' = n
          /\ level' = n - 1
          /\ pc' = IF n <= 0 THEN "exhausted" ELSE "gettiles"
    /\ UNCHANGED <<heap, img, corner, order, tile_shape, optLevels, rowsN,
                   colsN, grow, gcol, preShape, lvTiles, walked>>

\* Variant of TileLevelEnd that writes the zoomed image into the buffer
\* img already names, instead of binding img to a new array.
TileLevelEndInPlace ==
    /\ pc = "level_end"
    /\ IF level > 0
          THEN /\ heap' = [heap EXCEPT ![img] =
                     [shape |-> Zoom(heap[img]).shape,
                      flat |-> [x \in 1..Len(heap[img].flat) |->
                                   IF x <= Len(Zoom(heap[img]).flat)
                                      THEN Zoom(heap[img]).flat[x] ELSE 0]]]
               /\ img' = img
               /\ level' = level - 1
               /\ pc' = "gettiles"
          ELSE /\ pc' = "exhausted"
               /\ UNCHANGED <<heap, img, level>>
    /\ UNCHANGED <<corner, order, tile_shape, optLevels, nlevels, rowsN,
                   colsN, grow, gcol, preShape, lvTiles, walked>>

\* tile(): after the last tile of a level: img = zoom(img) when level > 0.
TileLevelEnd ==
    /\ pc = "level_end"
    /\ IF level > 0
          THEN /\ heap' = Append(heap, Zoom(heap[img]))
               /\ img' = Len(heap) + 1
               /\ level' = level - 1
               /\ pc' = "gettiles"
          ELSE /\ pc' = "exhausted"
               /\ UNCHANGED <<heap, img, level>>
    /\ UNCHANGED <<corner, order, tile_shape, optLevels, nlevels, rowsN,
                   colsN, grow, gcol, preShape, lvTiles, walked>>

(* --------------------------- Threader ---------------------------------- *)
ThreaderInit ==
    /\ nthreads \in 1..MaxThreads
    /\ queue = <<>>
    /\ unfinished = 0
    /\ threads = <<>>
    /\ wstate = [t \in Tids |-> "unborn"]
    /\ wjob = [t \in Tids |-> NoneJob]
    /\ si = 0
    /\ nstarts = 0 /\ nstops = 0 /\ nadded = 0
    /\ ran = {} /\ failed = {} /\ written = {} /\ nwrites = 0

\* queue.put(item): append and count the item as unfinished.
QueuePut(item) ==
    /\ queue' = Append(queue, item)
    /\ unfinished' = unfinished + 1

\* Threader.add
Add(job) ==
    /\ QueuePut(job)
    /\ nadded' = nadded + 1
    /\ UNCHANGED <<nthreads, threads, wstate, wjob, si, nstarts, nstops, ran,
                   failed, written, nwrites>>

\* Threader.start, first statement: self.threads.clear()
StartClear ==
    /\ threads' = <<>>
    /\ nstarts' = nstarts + 1
    /\ pc' = "start"
    /\ UNCHANGED <<nthreads, queue, unfinished, wstate, wjob, si, nstops,
                   nadded, ran, failed, written, nwrites>>

\* Threader.start, one iteration of the spawning loop; the call returns
\* after the nthreads-th iteration.
StartSpawn ==
    /\ pc = "start"
    /\ Len(threads) < nthreads
    /\ threads' = Append(threads, NextTid)
    /\ wstate' = [wstate EXCEPT ![NextTid] = "get"]
    /\ pc' = IF Len(threads) + 1 = nthreads THEN "started" ELSE "start"
    /\ UNCHANGED <<nthreads, queue, unfinished, wjob, si, nstarts, nstops,
                   nadded, ran, failed, written, nwrites>>

\* Threader.await: entering queue.join().
AwaitEnter ==
    /\ pc' = "await"
    /\ UNCHANGED <<nthreads, queue, unfinished, threads, wstate, wjob, si,
                   nstarts, nstops, nadded, ran, failed, written, nwrites>>

\* Variant of AwaitReturn that returns as soon as the queue is empty.
AwaitReturnWhenQueueEmpty ==
    /\ pc = "await"
    /\ queue = <<>>
    /\ pc' = "awaited"
    /\ UNCHANGED <<nthreads, queue, unfinished, threads, wstate, wjob, si,
                   nstarts, nstops, nadded, ran, failed, written, nwrites>>

\* Threader.await: queue.join() returns once unfinished_tasks is zero.
AwaitReturn ==
    /\ pc = "await"
    /\ unfinished = 0
    /\ pc' = "awaited"
    /\ UNCHANGED <<nthreads, queue, unfinished, threads, wstate, wjob, si,
                   nstarts, nstops, nadded, ran, failed, written, nwrites>>

\* Threader.stop: entering the self.await() at its head.
StopEnter ==
    /\ pc' = "stop_await"
    /\ nstops' = nstops + 1
    /\ UNCHANGED <<nthreads, queue, unfinished, threads, wstate, wjob, si,
                   nstarts, nadded, ran, failed, written, nwrites>>

\* Threader.stop: self.await() returns.
StopAwait ==
    /\ pc = "stop_await"
    /\ unfinished = 0
    /\ si' = 1
    /\ pc' = IF threads = <<>> THEN "stopped" ELSE "stop_put"
    /\ UNCHANGED <<nthreads, queue, unfinished, threads, wstate, wjob,
                   nstarts, nstops, nadded, ran, failed, written, nwrites>>

\* Variant of StopPut that puts a single stop token however many threads.
StopPutOneToken ==
    /\ pc = "stop_put"
    /\ QueuePut(NoneJob)
    /\ pc' = "stop_join" /\ si' = 1
    /\ UNCHANGED <<nthreads, threads, wstate, wjob, nstarts, nstops, nadded,
                   ran, failed, written, nwrites>>

\* Threader.stop: one queue.put(None) per entry of self.threads.
StopPut ==
    /\ pc = "stop_put"
    /\ QueuePut(NoneJob)
    /\ IF si = Len(threads)
          THEN pc' = "stop_join" /\ si' = 1
          ELSE pc' = pc /\ si' = si + 1
    /\ UNCHANGED <<nthreads, threads, wstate, wjob, nstarts, nstops, nadded,
                   ran, failed, written, nwrites>>

\* Variant of StopJoin that does not wait for the thread to end.
StopJoinNoWait ==
    /\ pc = "stop_join"
    /\ IF si = Len(threads)
          THEN pc' = "stopped" /\ si' = si
          ELSE pc' = pc /\ si' = si + 1
    /\ UNCHANGED <<nthreads, queue, unfinished, threads, wstate, wjob,
                   nstarts, nstops, nadded, ran, failed, written, nwrites>>

\* Threader.stop: thread.join() for each entry of self.threads, in order.
StopJoin ==
    /\ pc = "stop_join"
    /\ Terminated(threads[si])
    /\ IF si = Len(threads)
          THEN pc' = "stopped" /\ si' = si
          ELSE pc' = pc /\ si' = si + 1
    /\ UNCHANGED <<nthreads, queue, unfinished, threads, wstate, wjob,
                   nstarts, nstops, nadded, ran, failed, written, nwrites>>

\* Threader._worker: job = self.queue.get(); break on None.
WorkerGet(t) ==
    /\ wstate[t] = "get"
    /\ queue # <<>>
    /\ queue' = Tail(queue)
    /\ IF IsNone(Head(queue))
          THEN wstate' = [wstate EXCEPT ![t] = "exited"] /\ wjob' = wjob
          ELSE /\ wstate' = [wstate EXCEPT ![t] = "run"]
               /\ wjob' = [wjob EXCEPT ![t] = Head(queue)]
    /\ UNCHANGED <<nthreads, unfinished, threads, pc, si, nstarts, nstops,
                   nadded, ran, failed, written, nwrites>>

\* save(output_dir, major, minor, level, image_tile): the file written for
\* a tile job; the pixels are read through the view when the job runs.
SaveRecord(job) ==
    [id |-> job.id, level |-> job.level, major |-> job.major,
     minor |-> job.minor, pixels |-> ViewPixels(heap, job.tile)]
IsSave(job) == "tile" \in DOMAIN job

\* Threader._worker: job().  A job that raises propagates out of _worker
\* (there is no try/except), which ends the thread before task_done().
WorkerRun(t) ==
    /\ wstate[t] = "run"
    /\ \E ok \in BOOLEAN :
          IF ok
             THEN /\ wstate' = [wstate EXCEPT ![t] = "task_done"]
                  /\ ran' = ran \cup {wjob[t].id}
                  /\ failed' = failed
                  /\ IF IsSave(wjob[t])
                        THEN /\ written' = written \cup {SaveRecord(wjob[t])}
                             /\ nwrites' = nwrites + 1
                        ELSE UNCHANGED <<written, nwrites>>
             ELSE /\ wstate' = [wstate EXCEPT ![t] = "crashed"]
                  /\ failed' = failed \cup {wjob[t].id}
                  /\ ran' = ran
                  /\ UNCHANGED <<written, nwrites>>
    /\ UNCHANGED <<nthreads, queue, unfinished, threads, wjob, pc, si,
                   nstarts, nstops, nadded>>

\* Threader._worker: self.queue.task_done()
WorkerTaskDone(t) ==
    /\ wstate[t] = "task_done"
    /\ unfinished' = unfinished - 1
    /\ wstate' = [wstate EXCEPT ![t] = "get"]
    /\ UNCHANGED <<nthreads, queue, threads, wjob, pc, si, nstarts, nstops,
                   nadded, ran, failed, written, nwrites>>

(* ------------- a caller exercising the Threader interface --------------- *)
Ready == pc \in {"ready", "started", "awaited", "stopped"}

CallStart == Ready /\ nstarts < MaxStarts /\ StartClear
CallAdd == Ready /\ nadded < MaxJobs /\ Add(Job(nadded + 1)) /\ pc' = "ready"
CallAwait == Ready /\ AwaitEnter
CallStop == Ready /\ nstops < MaxStops /\ StopEnter

\* The pipeline is not running: its variables hold fixed values.
GenIdle ==
    /\ heap = <<>> /\ img = 0
    /\ corner = DEF_CORNER /\ order = DEF_ORDER
    /\ tile_shape = <<1, 1>> /\ optLevels = NoLevels
    /\ nlevels = 0 /\ level = 0
    /\ rowsN = 0 /\ colsN = 0 /\ grow = 0 /\ gcol = 0
    /\ preShape = <<0, 0>> /\ lvTiles = <<>> /\ walked = <<>>
PadIdle == pshape = <<0, 0>> /\ pfill = NoFill /\ pold = NewImage(0, 0) /\ prow = 0

InitThreader == ThreaderInit /\ pc = "ready" /\ GenIdle /\ PadIdle
NextThreader ==
    \/ CallStart /\ UNCHANGED <<genVars, padVars>>
    \/ CallAdd /\ UNCHANGED <<genVars, padVars>>
    \/ CallAwait /\ UNCHANGED <<genVars, padVars>>
    \/ CallStop /\ UNCHANGED <<genVars, padVars>>
    \/ StartSpawn /\ UNCHANGED <<genVars, padVars>>
    \/ AwaitReturn /\ UNCHANGED <<genVars, padVars>>
    \/ StopAwait /\ UNCHANGED <<genVars, padVars>>
    \/ StopPut /\ UNCHANGED <<genVars, padVars>>
    \/ StopJoin /\ UNCHANGED <<genVars, padVars>>
    \/ \E t \in Tids : WorkerGet(t) /\ UNCHANGED <<genVars, padVars>>
    \/ \E t \in Tids : WorkerRun(t) /\ UNCHANGED <<genVars, padVars>>
    \/ \E t \in Tids : WorkerTaskDone(t) /\ UNCHANGED <<genVars, padVars>>
SpecThreader == InitThreader /\ [][NextThreader]_vars

(* ------------------------- pad, step by step ---------------------------- *)
\* The threader is not running: its variables hold fixed values.
ThreaderIdle == ThreaderInit /\ nthreads = 1

CustomFill == [k \in 1..PxLen |-> 0 - k]
Shapes == (1..MaxDim) \X (1..MaxDim)
PadShapes == (1..(MaxDim + 1)) \X (1..(MaxDim + 1))
TileShapes == (1..MaxTile) \X (1..MaxTile)

InitPad ==
    /\ ThreaderIdle
    /\ pc = "pad_call"
    /\ \E sh \in Shapes : heap = <<NewImage(sh[1], sh[2])>>
    /\ img = 1
    /\ corner \in Corners
    /\ order = DEF_ORDER
    /\ tile_shape = <<1, 1>> /\ optLevels = NoLevels
    /\ nlevels = 0 /\ level = 0
    /\ rowsN = 0 /\ colsN = 0 /\ grow = 0 /\ gcol = 0
    /\ preShape = <<0, 0>> /\ lvTiles = <<>> /\ walked = <<>>
    /\ pshape \in PadShapes
    /\ pfill \in {NoFill, CustomFill}
    /\ pold = heap[1]
    /\ prow = 0

\* pad(): the shape check that precedes every mutation.
PadEnter ==
    /\ pc = "pad_call"
    /\ pc' = IF PadRaises(pshape, heap[img]) THEN "pad_raised" ELSE "pad_resize"
    /\ UNCHANGED <<heap, prow>>

\* pad(): img.resize(new_shape, refcheck=False); flat = np.ravel(img)
PadDoResize ==
    /\ pc = "pad_resize"
    /\ heap' = [heap EXCEPT ![img] = PadResize(pshape, heap[img])]
    /\ prow' = pold.shape[1] - 1
    /\ pc' = IF pold.shape[1] > 0 THEN "pad_copy" ELSE "pad_fill"

\* Variant of PadCopyStep that walks the rows first to last.
PadCopyStepForward ==
    /\ pc = "pad_copy"
    /\ heap' = [heap EXCEPT ![img].flat =
                   PadCopyRow(heap[img].flat, pold.shape[1] - 1 - prow,
                              pold.shape[2], pshape[2],
                              PadTop(corner, pshape, pold),
                              PadLeft(corner, pshape, pold))]
    /\ prow' = prow - 1
    /\ pc' = IF prow = 0 THEN "pad_fill" ELSE "pad_copy"

\* pad(): one iteration of for row in reversed(range(old_shape[0])).
PadCopyStep ==
    /\ pc = "pad_copy"
    /\ heap' = [heap EXCEPT ![img].flat =
                   PadCopyRow(heap[img].flat, prow, pold.shape[2], pshape[2],
                              PadTop(corner, pshape, pold),
                              PadLeft(corner, pshape, pold))]
    /\ prow' = prow - 1
    /\ pc' = IF prow = 0 THEN "pad_fill" ELSE "pad_copy"

\* pad(): the border fill that ends it.
PadFillStep ==
    /\ pc = "pad_fill"
    /\ heap' = [heap EXCEPT ![img] =
                   PadFillBorder(heap[img], PadTop(corner, pshape, pold),
                                 PadBottom(corner, pshape, pold),
                                 PadLeft(corner, pshape, pold),
                                 PadRight(corner, pshape, pold), pfill)]
    /\ pc' = "pad_done"
    /\ UNCHANGED prow

padFixed == <<nthreads, queue, unfinished, threads, wstate, wjob, si, nstarts,
              nstops, nadded, ran, failed, written, nwrites, img, corner, order,
              tile_shape, optLevels, nlevels, level, rowsN, colsN, grow, gcol,
              preShape, lvTiles, walked, pshape, pfill, pold>>
NextPad ==
    \/ PadEnter /\ UNCHANGED padFixed
    \/ PadDoResize /\ UNCHANGED padFixed
    \/ PadCopyStep /\ UNCHANGED padFixed
    \/ PadFillStep /\ UNCHANGED padFixed
SpecPad == InitPad /\ [][NextPad]_vars

(* ------------------------ gettiles on its own --------------------------- *)
InitTiles ==
    /\ ThreaderIdle
    /\ pc = "gettiles"
    /\ \E sh \in Shapes : heap = <<NewImage(sh[1], sh[2])>>
    /\ img = 1
    /\ corner \in Corners
    /\ order \in Orders
    /\ tile_shape \in TileShapes
    /\ optLevels = NoLevels
    /\ nlevels = 0 /\ level = 0
    /\ rowsN = 0 /\ colsN = 0 /\ grow = 0 /\ gcol = 0
    /\ preShape = <<0, 0>> /\ lvTiles = <<>> /\ walked = <<>>
    /\ PadIdle
thrFixed == <<nthreads, queue, unfinished, threads, wstate, wjob, si, nstarts,
              nstops, nadded, ran, failed, written, nwrites>>
NextTiles ==
    \/ GetTilesBegin /\ UNCHANGED <<thrFixed, padVars>>
    \/ GetTilesYield /\ UNCHANGED <<thrFixed, padVars>>
SpecTiles == InitTiles /\ [][NextTiles]_vars

(* -------------------------- tile on its own ----------------------------- *)
InitWalk ==
    /\ ThreaderIdle
    /\ pc = "started"
    /\ \E sh \in Shapes : heap = <<NewImage(sh[1], sh[2])>>
    /\ img = 1
    /\ corner = DEF_CORNER
    /\ order = DEF_ORDER
    /\ tile_shape \in TileShapes
    /\ optLevels \in {NoLevels} \cup (1..MaxLevels)
    /\ nlevels = 0 /\ level = 0
    /\ rowsN = 0 /\ colsN = 0 /\ grow = 0 /\ gcol = 0
    /\ preShape = <<0, 0>> /\ lvTiles = <<>> /\ walked = <<>>
    /\ PadIdle
NextWalk ==
    \/ TileBegin /\ UNCHANGED <<thrFixed, padVars>>
    \/ GetTilesBegin /\ UNCHANGED <<thrFixed, padVars>>
    \/ GetTilesYield /\ UNCHANGED <<thrFixed, padVars>>
    \/ TileLevelEnd /\ UNCHANGED <<thrFixed, padVars>>
SpecWalk == InitWalk /\ [][NextWalk]_vars

(* ------------------------------ climain --------------------------------- *)
\* partial(save, opt.output, row, col, lvl, curtile)
SaveJob(n, lvl, coord, curtile) ==
    [id |-> n, level |-> lvl, major |-> coord[1], minor |-> coord[2],
     tile |-> curtile]

Init ==
    /\ ThreaderInit
    /\ pc = "main"
    /\ \E sh \in (1..MainDim) \X (1..MainDim) : heap = <<NewImage(sh[1], sh[2])>>
    /\ img = 1
    /\ corner = DEF_CORNER
    /\ order = DEF_ORDER
    /\ tile_shape \in TileShapes
    /\ optLevels \in {NoLevels} \cup (1..MaxLevels)
    /\ nlevels = 0 /\ level = 0
    /\ rowsN = 0 /\ colsN = 0 /\ grow = 0 /\ gcol = 0
    /\ preShape = <<0, 0>> /\ lvTiles = <<>> /\ walked = <<>>
    /\ PadIdle

\* threader = Threader(opt.threads).start()
MainStart == pc = "main" /\ StartClear

\* One turn of the for loop: the generator yields, the job is added.
MainYieldAdd ==
    /\ GetTilesYield
    /\ Add(SaveJob(nadded + 1, level, CurCoord, CurTile))

\* threader.stop() once the generator is exhausted.
MainStop == pc = "exhausted" /\ StopEnter

\* LOG.info('Done.')
MainDone ==
    /\ pc = "stopped"
    /\ pc' = "done"
    /\ UNCHANGED <<thrFixed>>

Next ==
    \/ MainStart /\ UNCHANGED <<genVars, padVars>>
    \/ StartSpawn /\ UNCHANGED <<genVars, padVars>>
    \/ TileBegin /\ UNCHANGED <<thrFixed, padVars>>
    \/ GetTilesBegin /\ UNCHANGED <<thrFixed, padVars>>
    \/ MainYieldAdd /\ UNCHANGED padVars
    \/ TileLevelEnd /\ UNCHANGED <<thrFixed, padVars>>
    \/ MainStop /\ UNCHANGED <<genVars, padVars>>
    \/ StopAwait /\ UNCHANGED <<genVars, padVars>>
    \/ StopPut /\ UNCHANGED <<genVars, padVars>>
    \/ StopJoin /\ UNCHANGED <<genVars, padVars>>
    \/ MainDone /\ UNCHANGED <<genVars, padVars>>
    \/ \E t \in Tids : WorkerGet(t) /\ UNCHANGED <<genVars, padVars>>
    \/ \E t \in Tids : WorkerRun(t) /\ UNCHANGED <<genVars, padVars>>
    \/ \E t \in Tids : WorkerTaskDone(t) /\ UNCHANGED <<genVars, padVars>>
Spec == Init /\ [][Next]_vars

(* -------------------- fair scheduling of the threads -------------------- *)
\* The worker threads and the calling thread are OS threads: each keeps
\* running while it has a step to take.  Which calls the caller makes, and
\* whether a job raises, stays free.
ThreaderFairness ==
    /\ \A t \in Tids : WF_vars(WorkerGet(t) /\ UNCHANGED <<genVars, padVars>>)
    /\ \A t \in Tids : WF_vars(WorkerRun(t) /\ UNCHANGED <<genVars, padVars>>)
    /\ \A t \in Tids :
          WF_vars(WorkerTaskDone(t) /\ UNCHANGED <<genVars, padVars>>)
    /\ WF_vars(StartSpawn /\ UNCHANGED <<genVars, padVars>>)
    /\ WF_vars(AwaitReturn /\ UNCHANGED <<genVars, padVars>>)
    /\ WF_vars(StopAwait /\ UNCHANGED <<genVars, padVars>>)
    /\ WF_vars(StopPut /\ UNCHANGED <<genVars, padVars>>)
    /\ WF_vars(StopJoin /\ UNCHANGED <<genVars, padVars>>)
FairSpecThreader == SpecThreader /\ ThreaderFairness

\* climain runs on the main thread, each _worker on its own thread; every
\* thread keeps running while it has a step to take.  Whether a write
\* raises stays free.
MainThread ==
    \/ MainStart /\ UNCHANGED <<genVars, padVars>>
    \/ StartSpawn /\ UNCHANGED <<genVars, padVars>>
    \/ TileBegin /\ UNCHANGED <<thrFixed, padVars>>
    \/ GetTilesBegin /\ UNCHANGED <<thrFixed, padVars>>
    \/ MainYieldAdd /\ UNCHANGED padVars
    \/ TileLevelEnd /\ UNCHANGED <<thrFixed, padVars>>
    \/ MainStop /\ UNCHANGED <<genVars, padVars>>
    \/ StopAwait /\ UNCHANGED <<genVars, padVars>>
    \/ StopPut /\ UNCHANGED <<genVars, padVars>>
    \/ StopJoin /\ UNCHANGED <<genVars, padVars>>
    \/ MainDone /\ UNCHANGED <<genVars, padVars>>
WorkerThread(t) ==
    \/ WorkerGet(t) /\ UNCHANGED <<genVars, padVars>>
    \/ WorkerRun(t) /\ UNCHANGED <<genVars, padVars>>
    \/ WorkerTaskDone(t) /\ UNCHANGED <<genVars, padVars>>
MainFairness ==
    /\ WF_vars(MainThread)
    /\ \A t \in Tids : WF_vars(WorkerThread(t))
FairSpec == Spec /\ MainFairness

(* ------------------------------ properties ------------------------------ *)
\* The caller has just come back from queue.join(): out of await(), or out
\* of the await() at the head of stop() with no stop token put yet.
DrainReturned == pc = "awaited" \/ (pc = "stop_put" /\ si = 1)
Submitted == 1..nadded

\* C1: when drain() (Threader.await) returns, every submitted job has
\* completed: none is still queued and none is still held by a worker.
C1_DrainReturnsAfterAllJobs ==
    DrainReturned =>
        /\ QueuedJobs = {}
        /\ InFlight = {}
        /\ ran \cup failed = Submitted
C1_Witness ==
    /\ pc = "awaited"
    /\ nadded >= 2
    /\ ran = Submitted
    /\ Cardinality(LiveWorkers) >= 1

\* C2: a job that raises is still marked complete, so a drain() entered
\* with the workers started (and no stop token ever put) always returns.
C2_DrainReturnsDespiteFailure ==
    (pc = "await" /\ nstarts >= 1 /\ nstops = 0) ~> (pc = "awaited")

\* C3: a failing job does not crash its worker: once start() has returned
\* and until stop() is called, exactly nthreads workers are alive.
C3_FailureKeepsWorkerAlive ==
    (nstarts = 1 /\ nstops = 0 /\ pc # "start") =>
        Cardinality(LiveWorkers) = nthreads

\* What the caller can retrieve about failed jobs: a Threader has the
\* attributes queue, nthreads and threads, and none of them records the
\* failure of a job.
RetrievableFailures == {}

\* C4: every failure is surfaced: a drain() entered after some job has
\* failed returns, and then the retrievable failures are the failed jobs.
C4_FailuresSurfacedAfterDrain ==
    (pc = "await" /\ failed # {} /\ nstops = 0)
        ~> (pc = "awaited" /\ RetrievableFailures = failed)

\* The arrays tile() has had as its working raster img.
WorkingRasters == 1..Len(heap)
SubmittedTiles ==
    {queue[i].tile : i \in {k \in 1..Len(queue) : IsSave(queue[k])}}
    \cup {wjob[t].tile : t \in {u \in Tids : IsSave(wjob[u])}}

\* C5: a tile handed to the scheduler is a private copy: its backing
\* buffer is none of the producer's working rasters.
C5_SubmittedTileIsPrivateCopy ==
    \A tl \in SubmittedTiles : tl.buf \notin WorkingRasters

\* Where the claims place the original image inside the padded raster.
AnchorTop == IF South(corner) THEN pshape[1] - pold.shape[1] ELSE 0
AnchorLeft == IF East(corner) THEN pshape[2] - pold.shape[2] ELSE 0
InAnchored(i, j) ==
    /\ AnchorTop <= i /\ i < AnchorTop + pold.shape[1]
    /\ AnchorLeft <= j /\ j < AnchorLeft + pold.shape[2]
TargetSmaller == pshape[1] < pold.shape[1] \/ pshape[2] < pold.shape[2]

\* C6: pad preserves every existing pixel: the pixel that was at (i, j) is
\* at (i + top, j + left) afterwards.
C6_PadPreservesPixels ==
    pc = "pad_done" =>
        \A i \in 0..(pold.shape[1] - 1), j \in 0..(pold.shape[2] - 1),
           k \in 0..(PxLen - 1) :
            Cell(heap[img], i + AnchorTop, j + AnchorLeft, k) = Cell(pold, i, j, k)

\* C7: after pad every cell of the target-shaped raster outside the
\* corner-anchored region of the original image holds the fill value.
C7_PadBorderIsFill ==
    pc = "pad_done" =>
        /\ heap[img].shape = pshape
        /\ \A i \in 0..(pshape[1] - 1), j \in 0..(pshape[2] - 1),
              k \in 0..(PxLen - 1) :
               ~InAnchored(i, j) =>
                   Cell(heap[img], i, j, k) = PadFillValue(pfill)[k + 1]
C7_Witness ==
    /\ pc = "pad_done"
    /\ corner = "SouthEast"
    /\ pfill = CustomFill
    /\ pshape[1] > pold.shape[1] + 1
    /\ pshape[2] > pold.shape[2]
    /\ pold.shape[1] >= 2

\* C8: pad raises exactly when a target dimension is smaller than the
\* raster's, and it raises before any mutation: shape and contents are then
\* as they were.
C8_PadRaisesBeforeMutation ==
    /\ TargetSmaller => (pc \in {"pad_call", "pad_raised"} /\ heap[img] = pold)
    /\ pc = "pad_raised" => TargetSmaller
C8_Witness ==
    /\ pc = "pad_raised"
    /\ pshape[1] >= pold.shape[1]
    /\ pshape[2] < pold.shape[2]

\* C9: at every level, after gettiles has padded, each raster dimension is
\* the least multiple of the tile dimension not below the dimension before
\* padding, and the level yields (rows / tile rows) x (cols / tile cols)
\* tiles.
C9_PaddedToTileMultiple ==
    pc \in {"yield", "level_end"} =>
        /\ \A a \in 1..2 :
              /\ heap[img].shape[a] % tile_shape[a] = 0
              /\ heap[img].shape[a] >= preShape[a]
              /\ heap[img].shape[a] - preShape[a] < tile_shape[a]
        /\ pc = "level_end" =>
              Len(lvTiles) = (heap[img].shape[1] \div tile_shape[1])
                             * (heap[img].shape[2] \div tile_shape[2])
C9_Witness ==
    /\ pc = "level_end"
    /\ img = 2
    /\ preShape # heap[img].shape
    /\ Len(lvTiles) >= 1

\* C10: the tiles gettiles yields have exactly the tile shape, come in
\* row-major order of the (row, col) grid, and cover every pixel of the
\* raster exactly once.
C10_TilesPartitionRaster ==
    pc \in {"yield", "level_end"} =>
        LET cols == heap[img].shape[2] \div tile_shape[2]
        IN /\ \A n \in 1..Len(lvTiles) :
                 /\ lvTiles[n].tile.r1 - lvTiles[n].tile.r0 = tile_shape[1]
                 /\ lvTiles[n].tile.c1 - lvTiles[n].tile.c0 = tile_shape[2]
                 /\ lvTiles[n].row = (n - 1) \div cols
                 /\ lvTiles[n].col = (n - 1) % cols
                 /\ lvTiles[n].tile.r0 = lvTiles[n].row * tile_shape[1]
                 /\ lvTiles[n].tile.c0 = lvTiles[n].col * tile_shape[2]
           /\ pc = "level_end" =>
                 \A i \in 0..(heap[img].shape[1] - 1),
                    j \in 0..(heap[img].shape[2] - 1) :
                     Cardinality({n \in 1..Len(lvTiles) :
                         /\ lvTiles[n].tile.r0 <= i /\ i < lvTiles[n].tile.r1
                         /\ lvTiles[n].tile.c0 <= j /\ j < lvTiles[n].tile.c1})
                       = 1
C10_Witness ==
    /\ pc = "level_end"
    /\ preShape = <<4, 4>>
    /\ tile_shape = <<2, 2>>
    /\ Len(lvTiles) = 4

\* The address of the n-th record of the walk and the grid of its level.
Address(n) == <<walked[n].level, walked[n].major, walked[n].minor>>
GridRows(n) == heap[walked[n].tile.buf].shape[1] \div tile_shape[1]
GridCols(n) == heap[walked[n].tile.buf].shape[2] \div tile_shape[2]

\* C11: the (level, major, minor) addresses of the records tile() yields are
\* pairwise distinct, with level >= 0 and major, minor >= 0 and inside the
\* grid of their level, so no two save jobs write the same path.
C11_AddressesDistinct ==
    /\ \A m, n \in 1..Len(walked) : m # n => Address(m) # Address(n)
    /\ \A n \in 1..Len(walked) :
          /\ walked[n].level >= 0
          /\ walked[n].major >= 0
          /\ walked[n].minor >= 0
          /\ IF order = "ColMajor"
                THEN walked[n].major < GridCols(n) /\ walked[n].minor < GridRows(n)
                ELSE walked[n].major < GridRows(n) /\ walked[n].minor < GridCols(n)
C11_Witness ==
    /\ pc = "exhausted"
    /\ nlevels >= 2
    /\ Len(walked) >= 5

\* The inverse of the basis change: undo the axis order, then the
\* reflections.
FromBasis(ord, cor, shape, coord) ==
    LET r == IF ord = "ColMajor" THEN coord[2] ELSE coord[1]
        c == IF ord = "ColMajor" THEN coord[1] ELSE coord[2]
    IN <<IF South(cor) THEN shape[1] - r - 1 ELSE r,
         IF East(cor) THEN shape[2] - c - 1 ELSE c>>

\* C12: for every corner, order and grid shape the basis change is
\* invertible on the grid: distinct (row, col) give distinct (major, minor),
\* and the inverse mapping gives back (row, col).
C12_BasisRoundTrip ==
    /\ \A n \in 1..Len(lvTiles) :
          FromBasis(order, corner, <<rowsN, colsN>>, lvTiles[n].coord)
             = <<lvTiles[n].row, lvTiles[n].col>>
    /\ \A m, n \in 1..Len(lvTiles) :
          m # n => lvTiles[m].coord # lvTiles[n].coord
C12_Witness ==
    /\ pc = "level_end"
    /\ corner = "SouthEast"
    /\ order = "ColMajor"
    /\ rowsN >= 2
    /\ colsN > rowsN
    /\ Len(lvTiles) = rowsN * colsN

\* The records of the walk that carry level l.
AtLevel(l) == {n \in 1..Len(walked) : walked[n].level = l}

\* C13: tile() emits the levels from nlevels-1 down to 0: the level of the
\* records never increases, every level of 0..nlevels-1 appears, and img is
\* replaced by its zoom once between consecutive levels, nlevels-1 times
\* in all.
C13_LevelsDescendAndAllAppear ==
    /\ \A m, n \in 1..Len(walked) :
          m < n => walked[m].level >= walked[n].level
    /\ (pc = "exhausted" /\ nlevels >= 1) =>
          /\ \A l \in 0..(nlevels - 1) : AtLevel(l) # {}
          /\ Len(heap) - 1 = nlevels - 1

\* C14: with nlevels None the level count is at least 1 and level 0 is
\* emitted with exactly one tile.
C14_AutoLevelsEndInOneTile ==
    (pc = "exhausted" /\ optLevels = NoLevels) =>
        /\ nlevels >= 1
        /\ Cardinality(AtLevel(0)) = 1

\* A square image of side tile side * 2^k with square tiles, nlevels None;
\* the first array is still the decoded image, so nothing has padded it.
SquareK ==
    {k \in 0..MaxDim :
        heap[1] = NewImage(tile_shape[1] * Pow2(k), tile_shape[1] * Pow2(k))}
SquarePowerCase ==
    /\ optLevels = NoLevels
    /\ tile_shape[1] = tile_shape[2]
    /\ SquareK # {}

\* C15: for a square raster of side tile_side * 2^k the walk with automatic
\* level count has k+1 levels, level j has 4^j tiles, and no level is
\* padded.
C15_SquarePowerPyramid ==
    SquarePowerCase =>
        LET k == CHOOSE x \in SquareK : TRUE
        IN /\ pc \in {"yield", "level_end"} => preShape = heap[img].shape
           /\ pc # "started" => nlevels = k + 1
           /\ pc = "exhausted" =>
                 \A j \in 0..k : Cardinality(AtLevel(j)) = Pow2(2 * j)
C15_Witness ==
    /\ SquarePowerCase
    /\ pc = "exhausted"
    /\ nlevels = 3
    /\ Len(walked) = 21

StopTokensQueued == {i \in 1..Len(queue) : IsNone(queue[i])}
CurrentThreads == {threads[i] : i \in 1..Len(threads)}

C17_DrainReturnsAfterRestart ==
    (/\ pc = "await"
     /\ nstarts = 2
     /\ nstops = 1
     /\ LiveWorkers = CurrentThreads
     /\ Cardinality(LiveWorkers) = nthreads)
        ~> (pc = "awaited" \/ failed # {})

WalkedAddress(n) == <<walked[n].level, walked[n].major, walked[n].minor>>

\* C18: if no write fails, the run reaches 'Done'; at 'Done' every worker
\* has exited and every tile record the walk produced has been written
\* exactly once, under its own address, whatever the number of workers.
C18_RunEndsWithEveryTileWrittenOnce ==
    /\ <>(pc = "done" \/ failed # {})
    /\ [](pc = "done" =>
            /\ LiveWorkers = {}
            /\ nwrites = Len(walked)
            /\ {w.id : w \in written} = 1..Len(walked)
            /\ \A w \in written :
                  <<w.level, w.major, w.minor>> = WalkedAddress(w.id))
C18_Witness ==
    /\ pc = "done"
    /\ nthreads = 2
    /\ Len(heap) >= 2
    /\ nwrites >= 2
    /\ nwrites = Len(walked)

\* Scalars of the flat buffer that row r is read from and written to.
RowSource(r) ==
    {r * pold.shape[2] * PxLen + o : o \in 1..(pold.shape[2] * PxLen)}
RowDestBase(r) ==
    ((r + PadTop(corner, pshape, pold)) * pshape[2]
        + PadLeft(corner, pshape, pold)) * PxLen
RowDest(r) == {RowDestBase(r) + o : o \in 1..(pold.shape[2] * PxLen)}

\* C19: when pad copies row i, its destination range is disjoint from the
\* source range of every row j < i and those rows (and row i) still hold
\* their original content; after the loop every row holds its original
\* content at its new offset.
C19_ReverseCopyKeepsSources ==
    /\ pc = "pad_copy" =>
          /\ \A j \in 0..(prow - 1) : RowDest(prow) \cap RowSource(j) = {}
          /\ \A j \in 0..prow : \A x \in RowSource(j) :
                heap[img].flat[x] = pold.flat[x]
    /\ pc = "pad_fill" =>
          \A r \in 0..(pold.shape[1] - 1) :
             \A o \in 1..(pold.shape[2] * PxLen) :
                heap[img].flat[RowDestBase(r) + o]
                    = pold.flat[r * pold.shape[2] * PxLen + o]
C19_Witness ==
    /\ pc = "pad_fill"
    /\ pold.shape[1] >= 2
    /\ PadTop(corner, pshape, pold) > 0
    /\ pshape[2] > pold.shape[2]
    /\ RowDest(0) \cap RowSource(1) # {}

\* C20: no padding or downsampling step writes to a buffer once a tile view
\* of it has been yielded: every yielded view still shows the pixels it
\* showed when it was extracted, so what a worker writes for a tile is what
\* the tile held at extraction, however producer and workers interleave.
C20_WrittenPixelsAsExtracted ==
    /\ \A n \in 1..Len(walked) :
          ViewPixels(heap, walked[n].tile) = walked[n].pixels
    /\ \A w \in written : w.pixels = walked[w.id].pixels
C20_Witness ==
    /\ pc = "yield"
    /\ img >= 2
    /\ preShape # heap[img].shape
    /\ \E t \in Tids :
          /\ wstate[t] = "task_done"
          /\ IsSave(wjob[t])
          /\ wjob[t].tile.buf < img
          /\ SaveRecord(wjob[t]) \in written
    /\ \E i \in 1..Len(queue) : IsSave(queue[i]) /\ queue[i].tile.buf < img

====
